---- MODULE Spec2Model ----
(***************************************************************************)
(* Model of the archive service of src/app.py: the items table, the upload *)
(* directory and the request handlers upload, list_items, get_item,        *)
(* download and delete_item, run by concurrent request workers.            *)
(*                                                                         *)
(* Text is modelled as sequences of one-character strings; a file's bytes  *)
(* as a sequence of chunks.                                                *)
(***************************************************************************)
EXTENDS Integers, Sequences, FiniteSets, TLC

VARIABLES rows, seq, blobs, clock, pc, loc, resp, minted, committed, deletedOk,
          deleteTried

vars == <<rows, seq, blobs, clock, pc, loc, resp, minted, committed, deletedOk, deleteTried>>

-----------------------------------------------------------------------------
(* Bounds of the model.                                                    *)

\* uploads that pass validation in one behaviour
MaxUploads == 2
\* the clock runs over seconds 0..MaxSec and microseconds 0..MaxMicro of them
MaxSec == 0
MaxMicro == 1
\* chunks in an uploaded file
NumChunks == 1

\* the request workers, which run concurrently
Procs == {"w1", "w2"}

-----------------------------------------------------------------------------
(* Text.                                                                   *)

\* str.lower(), and SQLite's lower(), on the ASCII characters of the model
LowerChar(c) ==
  CASE c = "A" -> "a"
    [] c = "E" -> "e"
    [] c = "T" -> "t"
    [] c = "X" -> "x"
    [] OTHER -> c

lower(s) == [i \in 1..Len(s) |-> LowerChar(s[i])]

Whitespace == {" "}

RECURSIVE lstrip(_, _)
lstrip(s, chars) ==
  IF s # <<>> /\ Head(s) \in chars THEN lstrip(Tail(s), chars) ELSE s

RECURSIVE rstrip(_, _)
rstrip(s, chars) ==
  IF s # <<>> /\ s[Len(s)] \in chars
    THEN rstrip(SubSeq(s, 1, Len(s) - 1), chars)
    ELSE s

\* str.strip(chars)
strip(s, chars) == rstrip(lstrip(s, chars), chars)

\* the characters of s that satisfy keep, in order
RECURSIVE Filter(_, _)
Filter(s, keep) ==
  IF s = <<>> THEN <<>>
  ELSE IF Head(s) \in keep THEN <<Head(s)>> \o Filter(Tail(s), keep)
  ELSE Filter(Tail(s), keep)

\* t occurs in s as a contiguous run
Contains(s, t) ==
  \E i \in 0..(Len(s) - Len(t)) : SubSeq(s, i + 1, i + Len(t)) = t

-----------------------------------------------------------------------------
(* Configuration and allowed_file.                                         *)

ALLOWED_EXT ==
  { <<"p","n","g">>, <<"j","p","g">>, <<"j","p","e","g">>, <<"g","i","f">>,
    <<"p","d","f">>, <<"m","p","3">>, <<"w","a","v">>, <<"m","p","4">>,
    <<"t","x","t">> }

\* filename.rsplit(".", 1)[1]: what follows the last dot
RECURSIVE rsplit_ext(_)
rsplit_ext(s) ==
  IF s = <<>> \/ s[Len(s)] = "." THEN <<>>
  ELSE rsplit_ext(SubSeq(s, 1, Len(s) - 1)) \o <<s[Len(s)]>>

\* allowed_file without its test for a dot
allowed_file_by_suffix(filename) ==
  lower(rsplit_ext(filename)) \in ALLOWED_EXT

allowed_file(filename) ==
  /\ \E i \in 1..Len(filename) : filename[i] = "."
  /\ lower(rsplit_ext(filename)) \in ALLOWED_EXT

-----------------------------------------------------------------------------
(* werkzeug.utils.secure_filename, as called by upload (POSIX: os.path.sep *)
(* is "/", os.path.altsep is None).                                        *)

\* a character outside ASCII with no ASCII decomposition
NonAscii == "U+65E5"

\* [A-Za-z0-9_.-] over the characters of the model
SafeChars ==
  { "a", "b", "e", "t", "x", "A", "E", "T", "X",
    "0", "1", "2", "3", "4", "5", "6", "7", "8", "9", "_", ".", "-" }

\* every character of the model
Alphabet == SafeChars \cup {"/", " ", "%", NonAscii}

\* filename.replace(os.path.sep, " ")
replace_sep(s) == [i \in 1..Len(s) |-> IF s[i] = "/" THEN " " ELSE s[i]]

\* "_".join(s.split()) for s without leading or trailing whitespace
RECURSIVE join_runs(_)
join_runs(s) ==
  IF s = <<>> THEN <<>>
  ELSE IF Head(s) \in Whitespace
    THEN <<"_">> \o join_runs(lstrip(s, Whitespace))
    ELSE <<Head(s)>> \o join_runs(Tail(s))

\* "_".join(s.split())
split_join(s) == join_runs(strip(s, Whitespace))

\* upload that uses the submitted filename as it is
secure_filename_skipped(filename) == filename

secure_filename(filename) ==
  LET ascii == Filter(filename, Alphabet \ {NonAscii})
      spaced == replace_sep(ascii)
      kept == Filter(split_join(spaced), SafeChars)
  IN  strip(kept, {".", "_"})

-----------------------------------------------------------------------------
(* The clock and the two renderings of it that upload makes.               *)

Instants == [sec : 0..MaxSec, micro : 0..MaxMicro]

\* instant a is strictly before instant b
Before(a, b) == a.sec < b.sec \/ (a.sec = b.sec /\ a.micro < b.micro)

DigitChars == <<"0", "1", "2", "3", "4", "5", "6", "7", "8", "9">>

\* the decimal digits of n, zero-padded to width characters
RECURSIVE ZeroPad(_, _)
ZeroPad(n, width) ==
  IF width = 0 THEN <<>>
  ELSE ZeroPad(n \div 10, width - 1) \o <<DigitChars[(n % 10) + 1]>>

\* datetime.strftime("%Y%m%d%H%M%S%f"): the fields %S and %f; the fields
\* before them are the same for every instant of the model
strftime(t) == ZeroPad(t.sec, 2) \o ZeroPad(t.micro, 6)

\* datetime.isoformat(): the seconds, and the microseconds only when they
\* are not zero; the fields before them are the same for every instant
isoformat(t) ==
  IF t.micro = 0 THEN ZeroPad(t.sec, 2)
  ELSE ZeroPad(t.sec, 2) \o <<".">> \o ZeroPad(t.micro, 6)

\* byte value of the characters that occur in uploaded_at
Ord(c) ==
  IF c = "." THEN 46
  ELSE 48 + (CHOOSE d \in 0..9 : DigitChars[d + 1] = c)

\* SQLite's BINARY collation on TEXT: memcmp, then the shorter first
RECURSIVE TextLess(_, _)
TextLess(a, b) ==
  IF b = <<>> THEN FALSE
  ELSE IF a = <<>> THEN TRUE
  ELSE IF Head(a) # Head(b) THEN Ord(Head(a)) < Ord(Head(b))
  ELSE TextLess(Tail(a), Tail(b))

-----------------------------------------------------------------------------
(* SQLite's LIKE: "%" matches any run, "_" any one character, and ASCII    *)
(* letters match without regard to case.                                   *)

RECURSIVE Like(_, _)
Like(text, pattern) ==
  IF pattern = <<>> THEN text = <<>>
  ELSE IF Head(pattern) = "%"
    THEN Like(text, Tail(pattern)) \/ (text # <<>> /\ Like(Tail(text), pattern))
  ELSE IF text = <<>> THEN FALSE
  ELSE IF Head(pattern) = "_" THEN Like(Tail(text), Tail(pattern))
  ELSE /\ LowerChar(Head(pattern)) = LowerChar(Head(text))
       /\ Like(Tail(text), Tail(pattern))

-----------------------------------------------------------------------------
(* Requests.                                                               *)

\* request.files without a "file" part
NoUpload == [present |-> FALSE, filename |-> <<>>, data |-> <<>>]

\* the bytes of a file, NumChunks chunks of byte b
Data(b) == [i \in 1..NumChunks |-> b]

\* the (filename, bytes) pairs a client submits
Submitted ==
  { << <<"a", ".", "t", "x", "t">>, Data(1) >>,
    << <<"a", ".", "t", "x", "t">>, Data(2) >>,
    << <<".", ".", "/", ".", "T", "X", "T">>, Data(3) >>,
    << <<"a", ".", "e", "x", "e">>, Data(4) >>,
    << <<"t", "x", "t">>, Data(5) >>,
    << <<>>, <<>> >> }

Files ==
  {NoUpload} \cup
  { [present |-> TRUE, filename |-> s[1], data |-> s[2]] : s \in Submitted }

\* request.form: title, description and tags as submitted
NoForm == [title |-> <<>>, description |-> <<>>, tags |-> <<>>]

Forms ==
  { [title |-> <<" ", "A", "b">>, description |-> <<"x">>, tags |-> <<"a", "%">>] }

\* request.args["q"] of a listing
Queries == { <<>>, <<" ", "A">>, <<"_">> }

\* the ids requests name
Ids == 1..MaxUploads

\* a request in progress and its locals; form is read at line 245
NoRequest ==
  [ op |-> "none", item_id |-> 0, file |-> NoUpload, form |-> NoForm, q |-> <<>>,
    orig |-> <<>>, stored_name |-> <<>>, ino |-> 0, written |-> 0,
    after |-> FALSE ]

\* a response: its status and what its body or payload holds
Response(status) ==
  [ request |-> NoRequest, status |-> status, id |-> 0, items |-> <<>>,
    data |-> <<>>, download_name |-> <<>> ]

NoResponse == Response(0)

-----------------------------------------------------------------------------
(* The items table.                                                        *)

RowIds == {r.id : r \in rows}

SetMax(S) == CHOOSE m \in S : \A n \in S : n <= m

\* the id a table declared without AUTOINCREMENT gives: one more than the
\* largest id it holds now
rowid_max_plus_one(table, sequence) == SetMax({0} \cup {r.id : r \in table}) + 1

\* the id INSERT gives a row of a table declared INTEGER PRIMARY KEY
\* AUTOINCREMENT: one more than the largest id the table has ever held
next_rowid(table, sequence) == SetMax({sequence} \cup {r.id : r \in table}) + 1

\* the rows a SELECT ... WHERE id=? finds
select_by_id(table, item_id) == {r \in table : r.id = item_id}

\* ORDER BY uploaded_at without DESC
order_by_uploaded_at_asc(S) ==
  { o \in [1..Cardinality(S) -> S] :
      /\ \A i, j \in 1..Cardinality(S) : i # j => o[i] # o[j]
      /\ \A i \in 1..(Cardinality(S) - 1) :
           ~TextLess(o[i + 1].uploaded_at, o[i].uploaded_at) }

\* the orders ORDER BY uploaded_at DESC may return the rows of S in
order_by_uploaded_at_desc(S) ==
  { o \in [1..Cardinality(S) -> S] :
      /\ \A i, j \in 1..Cardinality(S) : i # j => o[i] # o[j]
      /\ \A i \in 1..(Cardinality(S) - 1) :
           ~TextLess(o[i].uploaded_at, o[i + 1].uploaded_at) }

\* WHERE lower(title) LIKE ? OR lower(description) LIKE ? OR lower(tags) LIKE ?
where_like(table, like) ==
  { r \in table :
      \/ Like(lower(r.title), like)
      \/ Like(lower(r.description), like)
      \/ Like(lower(r.tags), like) }

-----------------------------------------------------------------------------
(* The upload directory: blobs maps each file name present to the file's   *)
(* bytes and to ino, the number of the upload whose open created the file. *)

Exists(name) == name \in DOMAIN blobs

\* open(path, "wb"): an existing file is truncated, a missing one created
open_wb(dir, name, ino) ==
  IF name \in DOMAIN dir
    THEN [dir EXCEPT ![name] = [data |-> <<>>, ino |-> dir[name].ino]]
    ELSE [n \in DOMAIN dir \cup {name} |->
            IF n = name THEN [data |-> <<>>, ino |-> ino] ELSE dir[n]]

\* the inode an open of name refers to
opened_ino(dir, name, ino) == IF name \in DOMAIN dir THEN dir[name].ino ELSE ino

\* write of one chunk at offset off; a gap before it reads as zeros
write_at(data, off, chunk) ==
  [ i \in 1..(IF Len(data) > off + 1 THEN Len(data) ELSE off + 1) |->
      IF i = off + 1 THEN chunk
      ELSE IF i <= Len(data) THEN data[i]
      ELSE 0 ]

\* os.remove(path) that succeeds
unlink(dir, name) == [n \in DOMAIN dir \ {name} |-> dir[n]]

-----------------------------------------------------------------------------
(* Initial state: the table init_db creates and an empty upload directory. *)
(* resp is the response the step just taken sent, with the request it     *)
(* answers.  The history: minted, the names line 241 has made; committed,  *)
(* the uploads whose row was committed, in commit order; deleteTried, the  *)
(* ids a delete_item found a row for; deletedOk, those it answered 200 for.*)

Init ==
  /\ rows = {}
  /\ seq = 0
  /\ blobs = << >>
  /\ clock = [sec |-> 0, micro |-> 0]
  /\ pc = [p \in Procs |-> "idle"]
  /\ loc = [p \in Procs |-> NoRequest]
  /\ resp = NoResponse
  /\ minted = <<>>
  /\ committed = <<>>
  /\ deletedOk = {}
  /\ deleteTried = {}

\* worker p answers request with response
Finish(p, request, response) ==
  /\ pc' = [pc EXCEPT ![p] = "idle"]
  /\ loc' = [loc EXCEPT ![p] = NoRequest]
  /\ resp' = [response EXCEPT !.request = request]

\* worker p goes on to step with locals
Goto(p, step, locals) ==
  /\ pc' = [pc EXCEPT ![p] = step]
  /\ loc' = [loc EXCEPT ![p] = locals]
  /\ resp' = NoResponse

\* a reading t of the wall clock, which does not run backwards: clock is
\* the latest reading
utcnow(t) ==
  /\ t \in Instants
  /\ ~Before(t, clock)
  /\ clock' = t

-----------------------------------------------------------------------------
(* upload                                                                  *)

\* lines 231-237: no file part, an empty filename or a refused extension
upload_rejected(f) ==
  \/ ~f.present
  \/ f.filename = <<>>
  \/ ~allowed_file(f.filename)

upload_reject(p, f) ==
  /\ pc[p] = "idle"
  /\ upload_rejected(f)
  /\ Finish(p, [NoRequest EXCEPT !.op = "upload", !.file = f], Response(400))
  /\ UNCHANGED <<rows, seq, blobs, clock, minted, committed, deletedOk, deleteTried>>

\* lines 239-241
make_stored_name(now, orig) == strftime(now) \o <<"_">> \o orig

upload_name(p, f, now) ==
  /\ pc[p] = "idle"
  /\ ~upload_rejected(f)
  /\ Len(minted) < MaxUploads
  /\ utcnow(now)
  /\ LET orig == secure_filename(f.filename)
         stored_name == make_stored_name(now, orig)
     IN  /\ Goto(p, "save",
                 [NoRequest EXCEPT !.op = "upload", !.file = f, !.orig = orig,
                                   !.stored_name = stored_name,
                                   !.ino = Len(minted) + 1])
         /\ minted' = Append(minted, stored_name)
  /\ UNCHANGED <<rows, seq, blobs, committed, deletedOk, deleteTried>>

\* line 243, f.save(filepath): open(filepath, "wb")
save_open(p) ==
  /\ pc[p] = "save"
  /\ blobs' = open_wb(blobs, loc[p].stored_name, loc[p].ino)
  /\ Goto(p, IF loc[p].file.data = <<>> THEN "insert" ELSE "write",
          [loc[p] EXCEPT !.ino = opened_ino(blobs, loc[p].stored_name, loc[p].ino)])
  /\ UNCHANGED <<rows, seq, clock, minted, committed, deletedOk, deleteTried>>

\* line 243: the open raises OSError, which upload does not catch
save_open_fails(p) ==
  /\ pc[p] = "save"
  /\ Finish(p, loc[p], Response(500))
  /\ UNCHANGED <<rows, seq, blobs, clock, minted, committed, deletedOk, deleteTried>>

\* line 243: copyfileobj writes the next chunk through the open file; a file
\* unlinked or replaced since the open is no longer the one under the name
save_write(p) ==
  /\ pc[p] = "write"
  /\ LET name == loc[p].stored_name
         off == loc[p].written
         chunk == loc[p].file.data[off + 1]
     IN  /\ blobs' = IF Exists(name) /\ blobs[name].ino = loc[p].ino
                       THEN [blobs EXCEPT ![name].data = write_at(@, off, chunk)]
                       ELSE blobs
         /\ Goto(p, IF off + 1 = Len(loc[p].file.data) THEN "insert" ELSE "write",
                 [loc[p] EXCEPT !.written = off + 1])
  /\ UNCHANGED <<rows, seq, clock, minted, committed, deletedOk, deleteTried>>

\* upload that passes over a failed write and goes on to the INSERT
save_write_passed_over(p) ==
  /\ pc[p] = "write"
  /\ Goto(p, "insert", loc[p])
  /\ UNCHANGED <<rows, seq, blobs, clock, minted, committed, deletedOk, deleteTried>>

\* line 243: a write raises OSError, which upload does not catch
save_write_fails(p) ==
  /\ pc[p] = "write"
  /\ Finish(p, loc[p], Response(500))
  /\ UNCHANGED <<rows, seq, blobs, clock, minted, committed, deletedOk, deleteTried>>

\* lines 245-255: the row upload inserts
new_row(id, l, now) ==
  [ id |-> id,
    filename |-> l.stored_name,
    original_name |-> l.orig,
    title |-> strip(l.form.title, Whitespace),
    description |-> strip(l.form.description, Whitespace),
    tags |-> strip(l.form.tags, Whitespace),
    uploaded_at |-> isoformat(now) ]

\* lines 245-258: the form is read, then INSERT, commit, 201
upload_insert(p, form, now) ==
  /\ pc[p] = "insert"
  /\ utcnow(now)
  /\ LET id == next_rowid(rows, seq)
         l == [loc[p] EXCEPT !.form = form]
     IN  /\ rows' = rows \cup {new_row(id, l, now)}
         /\ seq' = id
         /\ committed' = Append(committed,
              [ id |-> id, filename |-> l.file.filename,
                stored_name |-> l.stored_name, orig |-> l.orig,
                data |-> l.file.data ])
         /\ Finish(p, l, [Response(201) EXCEPT !.id = id])
  /\ UNCHANGED <<blobs, minted, deletedOk, deleteTried>>

\* lines 252-256: the INSERT or the commit raises sqlite3.Error
upload_insert_fails(p) ==
  /\ pc[p] = "insert"
  /\ Finish(p, loc[p], Response(500))
  /\ UNCHANGED <<rows, seq, blobs, clock, minted, committed, deletedOk, deleteTried>>

-----------------------------------------------------------------------------
(* list_items, get_item, download                                          *)

\* lines 262-275
list_items(p, query) ==
  /\ pc[p] = "idle"
  /\ LET q == lower(strip(query, Whitespace))
         like == <<"%">> \o q \o <<"%">>
         found == IF q # <<>> THEN where_like(rows, like) ELSE rows
     IN  \E items \in order_by_uploaded_at_desc(found) :
           Finish(p, [NoRequest EXCEPT !.op = "list", !.q = query],
                  [Response(200) EXCEPT !.items = items])
  /\ UNCHANGED <<rows, seq, blobs, clock, minted, committed, deletedOk, deleteTried>>

\* lines 278-285
get_item(p, item_id) ==
  /\ pc[p] = "idle"
  /\ LET found == select_by_id(rows, item_id)
         request == [NoRequest EXCEPT !.op = "get", !.item_id = item_id,
                                      !.after = item_id \in deletedOk]
     IN  IF found = {}
           THEN Finish(p, request, Response(404))
           ELSE \E row \in found :
                  Finish(p, request, [Response(200) EXCEPT !.items = <<row>>])
  /\ UNCHANGED <<rows, seq, blobs, clock, minted, committed, deletedOk, deleteTried>>

\* lines 289-296: the SELECT of download
download_select(p, item_id) ==
  /\ pc[p] = "idle"
  /\ LET found == select_by_id(rows, item_id)
         request == [NoRequest EXCEPT !.op = "download", !.item_id = item_id,
                                      !.after = item_id \in deletedOk]
     IN  IF found = {}
           THEN Finish(p, request, Response(404))
           ELSE \E row \in found :
                  Goto(p, "send",
                       [request EXCEPT
                          !.stored_name = row.filename,
                          !.orig = IF row.original_name # <<>>
                                     THEN row.original_name ELSE row.filename])
  /\ UNCHANGED <<rows, seq, blobs, clock, minted, committed, deletedOk, deleteTried>>

\* download that opens the file itself and does not catch a missing one
download_send_uncaught(p) ==
  /\ pc[p] = "send"
  /\ IF Exists(loc[p].stored_name)
       THEN Finish(p, loc[p], [Response(200) EXCEPT
              !.data = blobs[loc[p].stored_name].data,
              !.download_name = loc[p].orig])
       ELSE Finish(p, loc[p], Response(500))
  /\ UNCHANGED <<rows, seq, blobs, clock, minted, committed, deletedOk, deleteTried>>

\* download that deletes the row when it finds the file missing
download_send_heals(p) ==
  /\ pc[p] = "send"
  /\ IF Exists(loc[p].stored_name)
       THEN /\ Finish(p, loc[p], [Response(200) EXCEPT
                 !.data = blobs[loc[p].stored_name].data,
                 !.download_name = loc[p].orig])
            /\ rows' = rows
       ELSE /\ Finish(p, loc[p], Response(404))
            /\ rows' = rows \ select_by_id(rows, loc[p].item_id)
  /\ UNCHANGED <<seq, blobs, clock, minted, committed, deletedOk, deleteTried>>

\* line 297: send_from_directory answers 404 when the file is missing
download_send(p) ==
  /\ pc[p] = "send"
  /\ IF Exists(loc[p].stored_name)
       THEN Finish(p, loc[p], [Response(200) EXCEPT
              !.data = blobs[loc[p].stored_name].data,
              !.download_name = loc[p].orig])
       ELSE Finish(p, loc[p], Response(404))
  /\ UNCHANGED <<rows, seq, blobs, clock, minted, committed, deletedOk, deleteTried>>

-----------------------------------------------------------------------------
(* delete_item                                                             *)

\* lines 301-307: the SELECT of delete_item
delete_select(p, item_id) ==
  /\ pc[p] = "idle"
  /\ LET found == select_by_id(rows, item_id)
         request == [NoRequest EXCEPT !.op = "delete", !.item_id = item_id,
                                      !.after = item_id \in deletedOk]
     IN  IF found = {}
           THEN /\ Finish(p, request, Response(404))
                /\ UNCHANGED deleteTried
           ELSE \E row \in found :
                  /\ Goto(p, "remove", [request EXCEPT !.stored_name = row.filename])
                  /\ deleteTried' = deleteTried \cup {item_id}
  /\ UNCHANGED <<rows, seq, blobs, clock, minted, committed, deletedOk>>

\* lines 308-309: os.remove succeeds
delete_remove(p) ==
  /\ pc[p] = "remove"
  /\ Exists(loc[p].stored_name)
  /\ blobs' = unlink(blobs, loc[p].stored_name)
  /\ Goto(p, "dbdelete", loc[p])
  /\ UNCHANGED <<rows, seq, clock, minted, committed, deletedOk, deleteTried>>

\* delete_item without its try/except around os.remove
delete_remove_raises(p) ==
  /\ pc[p] = "remove"
  /\ Finish(p, loc[p], Response(500))
  /\ UNCHANGED <<rows, seq, blobs, clock, minted, committed, deletedOk, deleteTried>>

\* lines 308-311: os.remove raises (the file is missing, or cannot be
\* removed) and the exception is passed over
delete_remove_fails(p) ==
  /\ pc[p] = "remove"
  /\ Goto(p, "dbdelete", loc[p])
  /\ UNCHANGED <<rows, seq, blobs, clock, minted, committed, deletedOk, deleteTried>>

\* delete_item whose DELETE is never committed
delete_row_uncommitted(p) ==
  /\ pc[p] = "dbdelete"
  /\ deletedOk' = deletedOk \cup {loc[p].item_id}
  /\ Finish(p, loc[p], Response(200))
  /\ UNCHANGED <<rows, seq, blobs, clock, minted, committed, deleteTried>>

\* lines 312-314: DELETE, commit, 200
delete_row(p) ==
  /\ pc[p] = "dbdelete"
  /\ rows' = rows \ select_by_id(rows, loc[p].item_id)
  /\ deletedOk' = deletedOk \cup {loc[p].item_id}
  /\ Finish(p, loc[p], Response(200))
  /\ UNCHANGED <<seq, blobs, clock, minted, committed, deleteTried>>

\* lines 312-313: the DELETE or the commit raises sqlite3.Error
delete_row_fails(p) ==
  /\ pc[p] = "dbdelete"
  /\ Finish(p, loc[p], Response(500))
  /\ UNCHANGED <<rows, seq, blobs, clock, minted, committed, deletedOk, deleteTried>>

-----------------------------------------------------------------------------

Next ==
  \/ \E p \in Procs, f \in Files : upload_reject(p, f)
  \/ \E p \in Procs, f \in Files, now \in Instants : upload_name(p, f, now)
  \/ \E p \in Procs : save_open(p)
  \/ \E p \in Procs : save_open_fails(p)
  \/ \E p \in Procs : save_write(p)
  \/ \E p \in Procs : save_write_fails(p)
  \/ \E p \in Procs, form \in Forms, now \in Instants : upload_insert(p, form, now)
  \/ \E p \in Procs : upload_insert_fails(p)
  \/ \E p \in Procs, q \in Queries : list_items(p, q)
  \/ \E p \in Procs, item_id \in Ids : get_item(p, item_id)
  \/ \E p \in Procs, item_id \in Ids : download_select(p, item_id)
  \/ \E p \in Procs : download_send(p)
  \/ \E p \in Procs, item_id \in Ids : delete_select(p, item_id)
  \/ \E p \in Procs : delete_remove(p)
  \/ \E p \in Procs : delete_remove_fails(p)
  \/ \E p \in Procs : delete_row(p)
  \/ \E p \in Procs : delete_row_fails(p)

Spec == Init /\ [][Next]_vars

-----------------------------------------------------------------------------
(* Properties.                                                             *)

\* worker p is in a delete of the item with this id
Deleting(p, item_id) ==
  pc[p] \in {"remove", "dbdelete"} /\ loc[p].item_id = item_id

\* C1: every row that no delete is working on has a blob on storage under
\* its filename, whatever requests have completed or failed.
C1_EveryRowHasItsBlob ==
  \A r \in rows :
    (\A p \in Procs : ~Deleting(p, r.id)) => Exists(r.filename)

\* C2: within a delete of X, the row goes before or with the blob: no state
\* has X's blob removed by the delete while X's row is still in the table.
C2_RowGoesBeforeBlob ==
  \A p \in Procs :
    (pc[p] = "dbdelete" /\ select_by_id(rows, loc[p].item_id) # {})
      => Exists(loc[p].stored_name)

\* C3: two uploads that submit the same filename get distinct stored names
\* (so distinct paths), and a download of either answers with the bytes of
\* its own upload.
C3_SameNameUploadsAreApart ==
  /\ \A i, j \in DOMAIN committed :
       (i # j /\ committed[i].filename = committed[j].filename)
         => committed[i].stored_name # committed[j].stored_name
  /\ \A i, j \in DOMAIN committed :
       ( /\ i # j
         /\ committed[i].filename = committed[j].filename
         /\ resp.request.op = "download"
         /\ resp.request.item_id = committed[i].id
         /\ resp.status = 200 )
         => resp.data = committed[i].data

\* C4: a download of X, with X uploaded and no delete of X begun, answers
\* with the bytes uploaded for X under X's original name, whatever uploads
\* and deletes of other items came between.
C4_RoundTrip ==
  \A i \in DOMAIN committed :
    ( /\ resp.request.op = "download"
      /\ resp.request.item_id = committed[i].id
      /\ committed[i].id \notin deleteTried )
      => /\ resp.status = 200
         /\ resp.data = committed[i].data
         /\ resp.download_name = committed[i].orig

\* C5: once a delete of X has answered 200, X has no row again, and every
\* get, download and delete of X begun after it answers 404.
C5_DeleteFinality ==
  /\ \A x \in deletedOk : select_by_id(rows, x) = {}
  /\ (resp.request.op \in {"get", "download", "delete"} /\ resp.request.after)
       => resp.status = 404

C5_Witness ==
  /\ resp.request.op = "delete"
  /\ resp.request.after
  /\ resp.status = 404
  /\ rows # {}

\* C6: the ids upload returns are strictly increasing in commit order, so
\* no two uploads share one and none is given again after a delete; the
\* table holds one row per id.
C6_IdsIncrease ==
  /\ \A i, j \in DOMAIN committed : i < j => committed[i].id < committed[j].id
  /\ \A r1, r2 \in rows : r1.id = r2.id => r1 = r2
  /\ (resp.request.op = "upload" /\ resp.status = 201)
       => /\ committed # <<>>
          /\ resp.id = committed[Len(committed)].id

C6_Witness ==
  /\ Len(committed) = 2
  /\ deletedOk = {committed[1].id}
  /\ resp.request.op = "upload"
  /\ resp.status = 201
  /\ resp.id = 2
  /\ RowIds = {2}

\* C7: no upload is given a stored name that an earlier upload was given.
C7_StoredNameNeverReused ==
  \A i, j \in DOMAIN minted : i # j => minted[i] # minted[j]

\* the query as list_items compares it: trimmed and lower-cased
Needle(query) == lower(strip(query, Whitespace))

\* C8: for a query that is not empty, list answers with exactly the items
\* whose lower-cased title, description or tags hold the lower-cased query
\* as a literal substring.
C8_SearchIsLiteralSubstring ==
  (resp.request.op = "list" /\ Needle(resp.request.q) # <<>>)
    => {resp.items[i] : i \in DOMAIN resp.items} =
         { r \in rows :
             \/ Contains(lower(r.title), Needle(resp.request.q))
             \/ Contains(lower(r.description), Needle(resp.request.q))
             \/ Contains(lower(r.tags), Needle(resp.request.q)) }

\* the number a run of decimal digits writes
RECURSIVE Decimal(_)
Decimal(s) ==
  IF s = <<>> THEN 0
  ELSE 10 * Decimal(SubSeq(s, 1, Len(s) - 1))
         + (CHOOSE d \in 0..9 : DigitChars[d + 1] = s[Len(s)])

\* the instant a row's uploaded_at denotes
uploadedAt(r) ==
  [ sec |-> Decimal(SubSeq(r.uploaded_at, 1, 2)),
    micro |-> IF Len(r.uploaded_at) > 2
                THEN Decimal(SubSeq(r.uploaded_at, 4, Len(r.uploaded_at)))
                ELSE 0 ]

\* C9: a listing is in non-increasing uploadedAt order, and with an empty
\* query it holds every row of the table exactly once.
C9_ListingOrder ==
  resp.request.op = "list" =>
    /\ \A i \in 1..(Len(resp.items) - 1) :
         ~Before(uploadedAt(resp.items[i]), uploadedAt(resp.items[i + 1]))
    /\ Needle(resp.request.q) = <<>> =>
         /\ {resp.items[i] : i \in DOMAIN resp.items} = rows
         /\ Len(resp.items) = Cardinality(rows)

C9_Witness ==
  /\ resp.request.op = "list"
  /\ Len(resp.items) = 2
  /\ Before(uploadedAt(resp.items[2]), uploadedAt(resp.items[1]))
  /\ resp.items[1].id > resp.items[2].id

\* name ends in a dot followed by ext, in any case
EndsInExtension(name, ext) ==
  /\ Len(name) > Len(ext)
  /\ name[Len(name) - Len(ext)] = "."
  /\ lower(SubSeq(name, Len(name) - Len(ext) + 1, Len(name))) = ext

\* an upload with no file part, an empty filename or an extension that is
\* not on the list
Refusable(f) ==
  \/ ~f.present
  \/ f.filename = <<>>
  \/ \A ext \in ALLOWED_EXT : ~EndsInExtension(f.filename, ext)

\* C10: an upload with no file part, an empty filename or an extension off
\* the list is answered 400 in one step that leaves rows and blobs as they
\* were, and is never taken further.
C10_RefusedUploadChangesNothing ==
  [][ /\ \A p \in Procs :
           (pc[p] = "idle" /\ pc'[p] # "idle" /\ loc'[p].op = "upload")
             => ~Refusable(loc'[p].file)
      /\ (resp' # NoResponse /\ resp'.request.op = "upload"
            /\ Refusable(resp'.request.file))
           => (resp'.status = 400 /\ rows' = rows /\ blobs' = blobs) ]_vars

C10_Witness ==
  /\ resp.request.op = "upload"
  /\ resp.request.file.present
  /\ resp.request.file.filename # <<>>
  /\ Refusable(resp.request.file)
  /\ resp.status = 400
  /\ rows # {}
  /\ blobs # << >>

\* worker p leaves step in this step
Leaves(p, step) == pc[p] = step /\ pc'[p] # step

\* C11: download of X answers 404 when X has no row, goes on to the file
\* only when X has one, answers 404 when no blob is under the row's
\* filename, and answers with the blob's bytes only when there is one.
C11_DownloadNotFound ==
  [][ /\ \A p \in Procs :
           (pc[p] = "idle" /\ pc'[p] = "send")
             => select_by_id(rows, loc'[p].item_id) # {}
      /\ \A p \in Procs :
           Leaves(p, "send") =>
             IF Exists(loc[p].stored_name)
               THEN /\ resp'.status = 200
                    /\ resp'.data = blobs[loc[p].stored_name].data
               ELSE resp'.status = 404
      /\ ( /\ resp' # NoResponse
           /\ resp'.request.op = "download"
           /\ \A p \in Procs : ~Leaves(p, "send") )
           => /\ resp'.status = 404
              /\ select_by_id(rows, resp'.request.item_id) = {} ]_vars

C11_Witness ==
  /\ resp.request.op = "download"
  /\ resp.status = 404
  /\ select_by_id(rows, resp.request.item_id) # {}
  /\ ~Exists(resp.request.stored_name)

\* name is one path component: no separator in it, and not "." or ".."
SingleComponent(name) ==
  /\ \A i \in 1..Len(name) : name[i] # "/"
  /\ name \notin { <<".">>, <<".", ".">> }

\* C12: the stored name and the original name of every accepted upload
\* hold no path separator and no directory component, whatever filename
\* was submitted, so every blob is a file directly inside the upload
\* directory.
C12_NamesAreSanitized ==
  /\ \A r \in rows :
       SingleComponent(r.filename) /\ SingleComponent(r.original_name)
  /\ \A i \in DOMAIN minted : SingleComponent(minted[i])
  /\ \A p \in Procs :
       loc[p].op = "upload"
         => SingleComponent(loc[p].stored_name) /\ SingleComponent(loc[p].orig)
  /\ \A name \in DOMAIN blobs : SingleComponent(name)

C12_Witness ==
  \E i \in DOMAIN committed :
    /\ ~SingleComponent(committed[i].filename)
    /\ \E r \in rows : r.id = committed[i].id /\ Exists(r.filename)

\* the uploads that were given this stored name
MintedAs(name) == {i \in DOMAIN minted : minted[i] = name}

\* C13: a row is committed only by an upload whose blob write has
\* completed (and, when no other upload was given the same stored name,
\* with the blob on storage holding the upload's bytes); an upload whose
\* open or write fails is answered 500 and inserts no row.
C13_BlobBeforeRow ==
  [][ /\ \A r \in rows' \ rows :
           \E p \in Procs :
             /\ pc[p] = "insert" /\ pc'[p] = "idle"
             /\ r.filename = loc[p].stored_name
             /\ loc[p].written = Len(loc[p].file.data)
             /\ Cardinality(MintedAs(r.filename)) = 1
                  => /\ Exists(r.filename)
                     /\ blobs[r.filename].data = loc[p].file.data
      /\ \A p \in Procs :
           (pc[p] \in {"save", "write"} /\ pc'[p] = "idle")
             => (resp'.status = 500 /\ rows' = rows) ]_vars

C13_Witness ==
  /\ resp.request.op = "upload"
  /\ resp.status = 500
  /\ resp.request.written < Len(resp.request.file.data)
  /\ Exists(resp.request.stored_name)
  /\ \A r \in rows : r.filename # resp.request.stored_name

\* C14: in a delete of an existing item, the os.remove step never answers
\* the request: whether the blob was removed, could not be removed or was
\* already absent, the delete goes on to its DELETE, and when that commits
\* the row is gone and the answer is 200.
C14_BlobFailureDoesNotBlock ==
  [][ \A p \in Procs :
        /\ Leaves(p, "remove")
             => (pc'[p] = "dbdelete" /\ resp' = NoResponse /\ rows' = rows)
        /\ Leaves(p, "dbdelete")
             => /\ resp'.status \in {200, 500}
                /\ resp'.status = 200
                     => select_by_id(rows', loc[p].item_id) = {}
                /\ resp'.status = 500 => rows' = rows ]_vars

C14_Witness ==
  /\ resp.request.op = "delete"
  /\ resp.status = 200
  /\ Exists(resp.request.stored_name)
  /\ select_by_id(rows, resp.request.item_id) = {}
  /\ \A r \in rows : r.filename # resp.request.stored_name

\* an upload has the file under name open and is writing it
Writing(name) ==
  \E p \in Procs : pc[p] = "write" /\ loc[p].stored_name = name

\* C15: a blob write is all or nothing: a file on storage that no upload
\* is writing holds the whole of an uploaded file, never a part of one.
C15_NoPartialBlob ==
  \A name \in DOMAIN blobs :
    ~Writing(name) =>
      \E f \in Files : f.present /\ f.data # <<>> /\ blobs[name].data = f.data

\* s is the beginning of t
IsPrefix(s, t) == Len(s) <= Len(t) /\ SubSeq(t, 1, Len(s)) = s

\* C16: blobs are write-once: while a file stays on storage no step changes
\* a byte it already holds; its bytes only grow as they are first written.
C16_BlobsAreWriteOnce ==
  [][ \A name \in DOMAIN blobs :
        name \in DOMAIN blobs'
          => IsPrefix(blobs[name].data, blobs'[name].data) ]_vars

\* C17: rows are immutable and operations are local: no step changes a row
\* it keeps; the blob of every row stays as it is in every step but the
\* os.remove of a delete of that row; an upload adds one new file and one
\* row; a delete answered 200 takes away the row of its id and no other.
C17_OperationsAreLocal ==
  [][ /\ \A r \in rows : \A r2 \in rows' : r2.id = r.id => r2 = r
      /\ \A r \in rows :
           ( /\ Exists(r.filename)
             /\ \A p \in Procs : ~(Leaves(p, "remove") /\ loc[p].item_id = r.id) )
             => /\ r.filename \in DOMAIN blobs'
                /\ blobs'[r.filename] = blobs[r.filename]
      /\ \A p \in Procs :
           (Leaves(p, "save") /\ pc'[p] # "idle")
             => /\ loc[p].stored_name \notin DOMAIN blobs
                /\ DOMAIN blobs' = DOMAIN blobs \cup {loc[p].stored_name}
      /\ \A p \in Procs :
           (Leaves(p, "insert") /\ resp'.status = 201)
             => /\ rows \subseteq rows'
                /\ Cardinality(rows' \ rows) = 1
                /\ blobs' = blobs
      /\ \A p \in Procs :
           (Leaves(p, "dbdelete") /\ resp'.status = 200)
             => /\ rows' = rows \ select_by_id(rows, loc[p].item_id)
                /\ blobs' = blobs ]_vars

\* C18: list, get and download, and a delete answered 404, leave the rows
\* and the blobs as they were, in the step that answers and in the SELECT
\* step of a download.
C18_ReadsChangeNothing ==
  [][ /\ ( /\ resp' # NoResponse
           /\ \/ resp'.request.op \in {"list", "get", "download"}
              \/ (resp'.request.op = "delete" /\ resp'.status = 404) )
           => (rows' = rows /\ blobs' = blobs /\ seq' = seq)
      /\ \A p \in Procs :
           (pc[p] = "idle" /\ pc'[p] = "send")
             => (rows' = rows /\ blobs' = blobs /\ seq' = seq) ]_vars

C18_Witness ==
  /\ resp.request.op = "delete"
  /\ resp.status = 404
  /\ rows # {}
  /\ blobs # << >>

\* the row parts of C17
C17_RowsAreImmutable ==
  [][ /\ \A r \in rows : \A r2 \in rows' : r2.id = r.id => r2 = r
      /\ \A p \in Procs :
           (Leaves(p, "insert") /\ resp'.status = 201)
             => (rows \subseteq rows' /\ Cardinality(rows' \ rows) = 1)
      /\ \A p \in Procs :
           (Leaves(p, "dbdelete") /\ resp'.status = 200)
             => rows' = rows \ select_by_id(rows, loc[p].item_id) ]_vars

\* C19: the original name and the stored name of every row end in a dot
\* followed by an extension on the list, as the submitted filename did.
C19_StoredNamesKeepExtension ==
  \A r \in rows :
    \E ext \in ALLOWED_EXT :
      /\ EndsInExtension(r.original_name, ext)
      /\ EndsInExtension(r.filename, ext)

====
